---- MODULE Spec2Model ----
(***************************************************************************)
(* Model of windows-service-detector (src/src/lib.rs).                     *)
(*                                                                         *)
(* is_running_as_windows_service() resolves the parent process id with     *)
(* NtQueryInformationProcess, enumerates the process table with            *)
(* NtQuerySystemInformation (zero-size first pass, resized second pass),   *)
(* walks the NextEntryOffset chain in the buffer and decides from the      *)
(* parent's SessionId and ImageName.                                       *)
(*                                                                         *)
(* Every local of the function is a function over the calls in progress,   *)
(* so that each call has its own ppid, buffer, return length and cursor.    *)
(* The operating system is the environment: its answers are drawn from     *)
(* small sets inside the actions that model the two native queries.        *)
(***************************************************************************)
EXTENDS Naturals, Integers, Sequences, FiniteSets, TLC

VARIABLES
    pc,             \* position of each call in the code
    phdl,           \* the process handle of get_current_process_parent_id
    res,            \* status returned by NtQueryInformationProcess
    pinfo,          \* pinfo.InheritedFromUniqueProcessId
    ppid,           \* the resolved parent identifier
    sys_procs_buf,  \* the Vec<u8> handed to NtQuerySystemInformation
    return_len,     \* the u32 the enumeration query writes its length to
    attempt,        \* iteration index of `for _ in 0..2`
    ptr,            \* traversal cursor, as a byte offset from the buffer start
    count,          \* number of cursor advances made by the traversal
    proc,           \* the record the traversal dereferenced last
    result,         \* what the call handed to its caller
    queries,        \* history: the enumeration queries issued, in order
    pbi_queries,    \* history: number of basic-information queries issued
    reads           \* history: extent of the last record read during traversal

vars == << pc, phdl, res, pinfo, ppid, sys_procs_buf, return_len, attempt,
           ptr, count, proc, result, queries, pbi_queries, reads >>

----------------------------------------------------------------------------
(* Bounds and program constants *)

\* bytes occupied by one SYSTEM_PROCESS_INFORMATION, in scaled units
RecSize == 2

\* records in the short process tables the OS may present
MaxRecords == 2

\* a third pass
MaxAttempts_three == 2 + 1

\* `for _ in 0..2`
MaxAttempts == 2

\* `count < 1024`
RecordCap == 1024

\* the calls in progress
Callers == {"main"}

----------------------------------------------------------------------------
(* NTSTATUS values *)

STATUS_SUCCESS == "STATUS_SUCCESS"

STATUS_INFO_LENGTH_MISMATCH == "STATUS_INFO_LENGTH_MISMATCH"

STATUS_BUFFER_TOO_SMALL == "STATUS_BUFFER_TOO_SMALL"

STATUS_ACCESS_DENIED == "STATUS_ACCESS_DENIED"

STATUS_NOT_IMPLEMENTED == "STATUS_NOT_IMPLEMENTED"

\* failures of NtQueryInformationProcess
PbiFailures ==
    {STATUS_ACCESS_DENIED, STATUS_INFO_LENGTH_MISMATCH, STATUS_NOT_IMPLEMENTED}

\* failures of NtQuerySystemInformation other than the length mismatch
SysFailures == {STATUS_ACCESS_DENIED, STATUS_NOT_IMPLEMENTED}

----------------------------------------------------------------------------
(* Image names: NUL-terminated UTF-16 in memory, Strings after conversion.  *)
(* A String is the sequence of its code points.                            *)

\* ImageName.Buffer.is_null()
NullPtr == << >>

\* "services.exe"
ServicesExe == <<115, 101, 114, 118, 105, 99, 101, 115, 46, 101, 120, 101>>

\* "<null>"
NullPlaceholder == <<60, 110, 117, 108, 108, 62>>

\* the wide string found at a non-null ImageName.Buffer: units, then NUL
Wide(units) == units \o <<0>>

WServices == Wide(ServicesExe)

WServicesUpper == Wide(<<83, 101, 114, 118, 105, 99, 101, 115, 46, 101, 120, 101>>)

WServicesSpace == Wide(ServicesExe \o <<32>>)

WSvchost == Wide(<<115, 118, 99, 104, 111, 115, 116, 46, 101, 120, 101>>)

WNullText == Wide(NullPlaceholder)

\* a file name holding an unpaired high surrogate (0xD800), which NTFS allows
WUnpaired == Wide(<<115, 55296, 46, 101, 120, 101>>)

Names == {NullPtr, WServices, WServicesUpper, WServicesSpace, WSvchost,
          WNullText, WUnpaired}

\* PWSTR::as_wide: the units before the first NUL
RECURSIVE AsWide(_)
AsWide(w) ==
    IF w = << >> \/ Head(w) = 0 THEN << >>
    ELSE <<Head(w)>> \o AsWide(Tail(w))

IsHigh(u) == u >= 55296 /\ u <= 56319

IsLow(u) == u >= 56320 /\ u <= 57343

\* String::from_utf16: the code points, or failure on an unpaired surrogate
RECURSIVE FromUtf16(_)
FromUtf16(w) ==
    IF w = << >> THEN [ok |-> TRUE, s |-> << >>]
    ELSE LET u == Head(w) IN
         IF IsHigh(u)
         THEN IF Len(w) >= 2 /\ IsLow(w[2])
              THEN LET rest == FromUtf16(Tail(Tail(w))) IN
                   [ok |-> rest.ok,
                    s  |-> <<65536 + (u - 55296) * 1024 + (w[2] - 56320)>>
                           \o rest.s]
              ELSE [ok |-> FALSE, s |-> << >>]
         ELSE IF IsLow(u) THEN [ok |-> FALSE, s |-> << >>]
         ELSE LET rest == FromUtf16(Tail(w)) IN
              [ok |-> rest.ok, s |-> <<u>> \o rest.s]

\* PWSTR::to_string
to_string(w) == FromUtf16(AsWide(w))

\* the conversion applied to the null pointer too, and failing on it
ProcName_nonull(name) ==
    IF name = NullPtr THEN [ok |-> FALSE, s |-> << >>]
    ELSE to_string(name)

\* lines 85-89: the name compared with "services.exe"
ProcName(name) ==
    IF name = NullPtr THEN [ok |-> TRUE, s |-> NullPlaceholder]
    ELSE to_string(name)

----------------------------------------------------------------------------
(* Process records and the process tables the OS may write *)

Sessions == {0, 1}

\* the identifier the parent's record carries in the tables
ParentPid == 4

\* the identifier of every other process in the tables; each of them is a
\* session-0 process named services.exe, so that taking any record but the
\* parent's for the parent's shows in the result
OtherPid == 8

\* values InheritedFromUniqueProcessId may take (0: the zero-filled record's id)
Pids == {0, ParentPid}

\* the fields of SYSTEM_PROCESS_INFORMATION the traversal reads
Record(pid, session, name, next) ==
    [UniqueProcessId |-> pid, SessionId |-> session, ImageName |-> name,
     NextEntryOffset |-> next]

\* what zero-filled bytes decode to
ZeroRecord == Record(0, 0, NullPtr, 0)

\* a record of the table set apart from the others, at chain position pos
Mark(pos, pid, session, name) ==
    [pos |-> pos, pid |-> pid, session |-> session, name |-> name]

NoMark == Mark(0, 0, 0, NullPtr)

\* A process table: n records stride bytes apart, the last one's
\* NextEntryOffset being lastNext (0 when the chain is well formed), pad
\* trailing bytes, and up to two marked records among the others.
Table(n, stride, lastNext, pad, m1, m2) ==
    [n |-> n, stride |-> stride, lastNext |-> lastNext, pad |-> pad,
     m1 |-> m1, m2 |-> m2]

\* what a buffer holds that no query has populated
ZeroFill == Table(0, RecSize, 0, 0, NoMark, NoMark)

\* the bytes the table takes, which the OS reports as the required length
Size(d) == IF d.n = 0 THEN 0 ELSE (d.n - 1) * d.stride + RecSize + d.pad

\* the record at chain position i (1..n) of table d
RecAt(d, i) ==
    LET nx == IF i < d.n THEN d.stride ELSE d.lastNext IN
    IF d.m1.pos = i THEN Record(d.m1.pid, d.m1.session, d.m1.name, nx)
    ELSE IF d.m2.pos = i THEN Record(d.m2.pid, d.m2.session, d.m2.name, nx)
    ELSE Record(OtherPid, 0, WServices, nx)

ParentMarks(n) ==
    {Mark(p, ParentPid, s, nm) : p \in 1..n, s \in Sessions, nm \in Names}

\* tables of a few records, well formed or with a dangling last offset
ShortTables ==
    UNION {{Table(n, RecSize, ln, pad, m, NoMark) :
              ln \in {0, RecSize, RecSize + 1}, pad \in {0, 1},
              m \in {NoMark} \cup ParentMarks(n)} : n \in 1..MaxRecords}

\* tables in which two records carry the parent's identifier
DupTables ==
    {Table(n, RecSize, 0, 0, Mark(n - 1, ParentPid, s1, n1),
                             Mark(n, ParentPid, s2, n2)) :
        n \in 2..MaxRecords, s1 \in Sessions, s2 \in Sessions,
        n1 \in {WServices, WSvchost}, n2 \in {WServices, WSvchost}}

\* tables with more records than the traversal's cap
LongTables ==
    {Table(RecordCap + 1, RecSize, ln, 0, m, NoMark) :
        ln \in {0, RecSize},
        m \in {NoMark, Mark(RecordCap, ParentPid, 0, WServices),
               Mark(RecordCap + 1, ParentPid, 0, WServices)}}

\* a table without any record: the OS reports length 0
EmptyTable == ZeroFill

Tables == ShortTables \cup DupTables \cup LongTables \cup {EmptyTable}

----------------------------------------------------------------------------
(* The buffer *)

\* Vec::new()
EmptyBuf == [len |-> 0, data |-> ZeroFill, live |-> TRUE]

\* no Vec yet: the state before `Vec::new()`
NoBuf == [len |-> 0, data |-> ZeroFill, live |-> FALSE]

\* the Vec going out of scope when the function returns or unwinds; its
\* last length and contents stay on record
Drop(b) == [b EXCEPT !.live = FALSE]

\* the resize left out
Resize_keep(b, n) == b

\* Vec::resize(n, 0): the prefix is kept, new bytes are zero
Resize(b, n) == [b EXCEPT !.len = n]

\* the OS copying table d into the buffer
Populate(b, d) == [b EXCEPT !.data = d]

\* one buffer shared by all calls
Written_shared(bufs, t, d) == [u \in DOMAIN bufs |-> Populate(bufs[u], d)]

\* line 59: the OS writes through the pointer to the call's own Vec
Written(bufs, t, d) == [bufs EXCEPT ![t] = Populate(@, d)]

\* what reading past the allocation may yield
Garbage ==
    {Record(p, 0, nm, nx) : p \in {ParentPid, OtherPid},
                            nm \in {NullPtr, WServices}, nx \in {0, 1}}

\* (ptr as *mut SYSTEM_PROCESS_INFORMATION).as_ref(): the records the read
\* at offset off may yield. A record lying wholly inside the buffer is what
\* the bytes hold; one reaching past the end is a read outside the allocation.
Deref(b, off) ==
    IF off + RecSize > b.len THEN Garbage
    ELSE LET d == b.data IN
         IF d.n > 0 /\ off % d.stride = 0 /\ off \div d.stride < d.n
         THEN {RecAt(d, off \div d.stride + 1)}
         ELSE {ZeroRecord}

----------------------------------------------------------------------------
(* Results *)

NoResult == [kind |-> "None", val |-> FALSE, code |-> STATUS_SUCCESS]

Ok(b) == [kind |-> "Ok", val |-> b, code |-> STATUS_SUCCESS]

Err(status) == [kind |-> "Err", val |-> FALSE, code |-> status]

\* unwrap() on a failed conversion unwinds out of the function
Panic == [kind |-> "Panic", val |-> FALSE, code |-> STATUS_SUCCESS]

\* one entry of the query history
Query(cap, status, ret, data) ==
    [cap |-> cap, status |-> status, ret |-> ret, data |-> data]

NoRead == [at |-> 0, end |-> 0, len |-> 0, any |-> FALSE]

----------------------------------------------------------------------------
(* Initial state: every call is about to enter the function *)

InitFor(S) ==
    /\ pc = [t \in S |-> "start"]
    /\ phdl = [t \in S |-> "none"]
    /\ res = [t \in S |-> STATUS_SUCCESS]
    /\ pinfo = [t \in S |-> 0]
    /\ ppid = [t \in S |-> 0]
    /\ sys_procs_buf = [t \in S |-> NoBuf]
    /\ return_len = [t \in S |-> 0]
    /\ attempt = [t \in S |-> 0]
    /\ ptr = [t \in S |-> 0]
    /\ count = [t \in S |-> 0]
    /\ proc = [t \in S |-> ZeroRecord]
    /\ result = [t \in S |-> NoResult]
    /\ queries = [t \in S |-> << >>]
    /\ pbi_queries = [t \in S |-> 0]
    /\ reads = [t \in S |-> NoRead]

Init == InitFor(Callers)

----------------------------------------------------------------------------
(* get_current_process_parent_id *)

\* line 29-31: the handle of the current process, default pinfo
GetCurrentProcess(t) ==
    /\ pc[t] = "start"
    /\ phdl' = [phdl EXCEPT ![t] = "open"]
    /\ pinfo' = [pinfo EXCEPT ![t] = 0]
    /\ pc' = [pc EXCEPT ![t] = "pbi"]
    /\ UNCHANGED << res, ppid, sys_procs_buf, return_len, attempt, ptr, count,
                    proc, result, queries, pbi_queries, reads >>

\* line 32-38: the OS answers with a status and, on success, the parent's id
NtQueryInformationProcess(t) ==
    /\ pc[t] = "pbi"
    /\ \E status \in {STATUS_SUCCESS} \cup PbiFailures, pid \in Pids :
          /\ res' = [res EXCEPT ![t] = status]
          /\ pinfo' = [pinfo EXCEPT ![t] =
                          IF status = STATUS_SUCCESS THEN pid ELSE @]
    /\ pbi_queries' = [pbi_queries EXCEPT ![t] = @ + 1]
    /\ pc' = [pc EXCEPT ![t] = "close"]
    /\ UNCHANGED << phdl, ppid, sys_procs_buf, return_len, attempt, ptr,
                    count, proc, result, queries, reads >>

\* the handle left open
CloseHandle_leak(t) ==
    /\ pc[t] = "close"
    /\ pc' = [pc EXCEPT ![t] = "resolved"]
    /\ UNCHANGED << phdl, res, pinfo, ppid, sys_procs_buf, return_len, attempt,
                    ptr, count, proc, result, queries, pbi_queries, reads >>

\* line 39
CloseHandle(t) ==
    /\ pc[t] = "close"
    /\ phdl' = [phdl EXCEPT ![t] = "closed"]
    /\ pc' = [pc EXCEPT ![t] = "resolved"]
    /\ UNCHANGED << res, pinfo, ppid, sys_procs_buf, return_len, attempt, ptr,
                    count, proc, result, queries, pbi_queries, reads >>

\* the status of the query ignored
PbiOk_any(status) == TRUE

\* line 40-41: `match res { Ok(_) => ...`
PbiOk(status) == status = STATUS_SUCCESS

\* line 40-43 and line 49-51: the error is propagated by `?`, or the parent
\* id is bound and the buffer and return length are created
ParentIdResolved(t) ==
    /\ pc[t] = "resolved"
    /\ IF PbiOk(res[t])
       THEN /\ ppid' = [ppid EXCEPT ![t] = pinfo[t]]
            /\ sys_procs_buf' = [sys_procs_buf EXCEPT ![t] = EmptyBuf]
            /\ return_len' = [return_len EXCEPT ![t] = 0]
            /\ attempt' = [attempt EXCEPT ![t] = 0]
            /\ pc' = [pc EXCEPT ![t] = "query"]
            /\ UNCHANGED result
       ELSE /\ result' = [result EXCEPT ![t] = Err(res[t])]
            /\ pc' = [pc EXCEPT ![t] = "done"]
            /\ UNCHANGED << ppid, sys_procs_buf, return_len, attempt >>
    /\ UNCHANGED << phdl, res, pinfo, ptr, count, proc, queries, pbi_queries,
                    reads >>

----------------------------------------------------------------------------
(* is_running_as_windows_service: the two-pass enumeration query *)

\* What NtQuerySystemInformation may answer to a buffer of cap bytes: success
\* with a table that fits, a length mismatch reporting the length of a table
\* that does not fit (or no length at all), or another failure that leaves
\* the return length as it was.
Answers(cap, ret) ==
    {[status |-> STATUS_SUCCESS, ret |-> Size(d), data |-> d] :
        d \in {x \in Tables : Size(x) <= cap}}
    \cup {[status |-> STATUS_INFO_LENGTH_MISMATCH, ret |-> n, data |-> ZeroFill] :
        n \in {0} \cup {Size(x) : x \in {y \in Tables : Size(y) > cap}}}
    \cup {[status |-> f, ret |-> ret, data |-> ZeroFill] : f \in SysFailures}

\* every failure taken for the length mismatch
IsLengthMismatch_any(status) == TRUE

\* line 65: e.code() == STATUS_INFO_LENGTH_MISMATCH.into()
IsLengthMismatch(status) == status = STATUS_INFO_LENGTH_MISMATCH

\* line 55-73: one iteration of the loop, with the arm of the match it takes
NtQuerySystemInformation(t) ==
    /\ pc[t] = "query"
    /\ attempt[t] < MaxAttempts
    /\ \E a \in Answers(sys_procs_buf[t].len, return_len[t]) :
          /\ queries' = [queries EXCEPT ![t] =
                Append(@, Query(sys_procs_buf[t].len, a.status, a.ret, a.data))]
          /\ return_len' = [return_len EXCEPT ![t] = a.ret]
          /\ CASE a.status = STATUS_SUCCESS ->
                    \* Ok(()) => break
                    /\ sys_procs_buf' = Written(sys_procs_buf, t, a.data)
                    /\ pc' = [pc EXCEPT ![t] = "check"]
                    /\ UNCHANGED << attempt, result >>
               [] a.status # STATUS_SUCCESS /\ IsLengthMismatch(a.status) ->
                    \* resize to the reported length, next iteration if any
                    /\ sys_procs_buf' = [sys_procs_buf EXCEPT ![t] =
                                            Resize(@, a.ret)]
                    /\ attempt' = [attempt EXCEPT ![t] = @ + 1]
                    /\ pc' = [pc EXCEPT ![t] =
                          IF attempt[t] + 1 < MaxAttempts THEN "query"
                          ELSE "check"]
                    /\ UNCHANGED result
               [] OTHER ->
                    \* return Err(e.into())
                    /\ result' = [result EXCEPT ![t] = Err(a.status)]
                    /\ sys_procs_buf' = [sys_procs_buf EXCEPT ![t] = Drop(@)]
                    /\ pc' = [pc EXCEPT ![t] = "done"]
                    /\ UNCHANGED attempt
    /\ UNCHANGED << phdl, res, pinfo, ppid, ptr, count, proc, pbi_queries,
                    reads >>

\* line 75-81: a return length of zero is STATUS_BUFFER_TOO_SMALL; otherwise
\* the traversal starts at the head of the buffer
CheckReturnLen(t) ==
    /\ pc[t] = "check"
    /\ IF return_len[t] = 0
       THEN /\ result' = [result EXCEPT ![t] = Err(STATUS_BUFFER_TOO_SMALL)]
            /\ sys_procs_buf' = [sys_procs_buf EXCEPT ![t] = Drop(@)]
            /\ pc' = [pc EXCEPT ![t] = "done"]
            /\ UNCHANGED << ptr, count >>
       ELSE /\ ptr' = [ptr EXCEPT ![t] = 0]
            /\ count' = [count EXCEPT ![t] = 0]
            /\ pc' = [pc EXCEPT ![t] = "walk"]
            /\ UNCHANGED << result, sys_procs_buf >>
    /\ UNCHANGED << phdl, res, pinfo, ppid, return_len, attempt, proc,
                    queries, pbi_queries, reads >>

----------------------------------------------------------------------------
(* is_running_as_windows_service: the traversal *)

\* the cap off by one: `count <= 1024`
InLoop_inclusive(t) ==
    ptr[t] < sys_procs_buf[t].len /\ count[t] <= RecordCap

\* line 82: the condition of the while loop
InLoop(t) == ptr[t] < sys_procs_buf[t].len /\ count[t] < RecordCap

\* the first record taken for the parent's
Matches_any(p, id) == TRUE

\* the session test merged into the identifier test
Matches_session0(p, id) == p.UniqueProcessId = id /\ p.SessionId = 0

\* line 84: proc.UniqueProcessId.0 as usize == ppid
Matches(p, id) == p.UniqueProcessId = id

\* the name left out of the verdict
Verdict_session(session, name) == session = 0

\* line 90: the verdict on the matched record, given its converted name
Verdict(session, name) == session = 0 /\ name = ServicesExe

\* line 82-98: one iteration of the while loop
Traverse(t) ==
    /\ pc[t] = "walk"
    /\ InLoop(t)
    /\ \E p \in Deref(sys_procs_buf[t], ptr[t]) :
          /\ proc' = [proc EXCEPT ![t] = p]
          /\ reads' = [reads EXCEPT ![t] =
                [at |-> ptr[t], end |-> ptr[t] + RecSize,
                 len |-> sys_procs_buf[t].len, any |-> TRUE]]
          /\ IF Matches(p, ppid[t])
             THEN \* line 85-90
                  LET nm == ProcName(p.ImageName) IN
                  /\ result' = [result EXCEPT ![t] =
                        IF nm.ok THEN Ok(Verdict(p.SessionId, nm.s))
                        ELSE Panic]
                  /\ sys_procs_buf' = [sys_procs_buf EXCEPT ![t] = Drop(@)]
                  /\ pc' = [pc EXCEPT ![t] = "done"]
                  /\ UNCHANGED << ptr, count >>
             ELSE IF p.NextEntryOffset = 0
             THEN \* line 93-95: break
                  /\ pc' = [pc EXCEPT ![t] = "after"]
                  /\ UNCHANGED << ptr, count, result, sys_procs_buf >>
             ELSE \* line 96-97
                  /\ ptr' = [ptr EXCEPT ![t] = @ + p.NextEntryOffset]
                  /\ count' = [count EXCEPT ![t] = @ + 1]
                  /\ UNCHANGED << pc, result, sys_procs_buf >>
    /\ UNCHANGED << phdl, res, pinfo, ppid, return_len, attempt, queries,
                    pbi_queries >>

\* line 82: the loop condition fails
LeaveLoop(t) ==
    /\ pc[t] = "walk"
    /\ ~InLoop(t)
    /\ pc' = [pc EXCEPT ![t] = "after"]
    /\ UNCHANGED << phdl, res, pinfo, ppid, sys_procs_buf, return_len,
                    attempt, ptr, count, proc, result, queries, pbi_queries,
                    reads >>

\* an unmatched parent reported as the buffer-too-small error
ReturnFalse_err(t) ==
    /\ pc[t] = "after"
    /\ result' = [result EXCEPT ![t] = Err(STATUS_BUFFER_TOO_SMALL)]
    /\ sys_procs_buf' = [sys_procs_buf EXCEPT ![t] = Drop(@)]
    /\ pc' = [pc EXCEPT ![t] = "done"]
    /\ UNCHANGED << phdl, res, pinfo, ppid, return_len, attempt, ptr, count,
                    proc, queries, pbi_queries, reads >>

\* line 100
ReturnFalse(t) ==
    /\ pc[t] = "after"
    /\ result' = [result EXCEPT ![t] = Ok(FALSE)]
    /\ sys_procs_buf' = [sys_procs_buf EXCEPT ![t] = Drop(@)]
    /\ pc' = [pc EXCEPT ![t] = "done"]
    /\ UNCHANGED << phdl, res, pinfo, ppid, return_len, attempt, ptr, count,
                    proc, queries, pbi_queries, reads >>

----------------------------------------------------------------------------
(* Specifications *)

Step(t) ==
    \/ GetCurrentProcess(t)
    \/ NtQueryInformationProcess(t)
    \/ CloseHandle(t)
    \/ ParentIdResolved(t)
    \/ NtQuerySystemInformation(t)
    \/ CheckReturnLen(t)
    \/ Traverse(t)
    \/ LeaveLoop(t)
    \/ ReturnFalse(t)

Next == \E t \in Callers : Step(t)

Spec == Init /\ [][Next]_vars

----------------------------------------------------------------------------
(* Two calls in sequence against an unchanged operating system *)

RepeatCallers == {"first", "second"}

InitRepeat == InitFor(RepeatCallers)

\* The OS state is the same for the second call: what its queries are
\* answered so far is what the same queries of the first call were answered
\* (the parent identifier, the statuses, the lengths, the table contents).
SameOsState ==
    /\ pbi_queries["second"] = 1 =>
          /\ res["second"] = res["first"]
          /\ pinfo["second"] = pinfo["first"]
    /\ Len(queries["second"]) <= Len(queries["first"])
    /\ \A i \in 1..Len(queries["second"]) :
          /\ queries["second"][i].status = queries["first"][i].status
          /\ queries["second"][i].ret = queries["first"][i].ret
          /\ queries["second"][i].data = queries["first"][i].data

\* the second call is made after the first has ended
NextRepeat ==
    \/ Step("first")
    \/ /\ pc["first"] = "done"
       /\ Step("second")
       /\ SameOsState'

SpecRepeat == InitRepeat /\ [][NextRepeat]_vars

----------------------------------------------------------------------------
(* Two calls running concurrently *)

ConcCallers == {"a", "b"}

\* records in the tables presented to concurrent calls
ConcRecords == 1

InitConcurrent == InitFor(ConcCallers)

\* the tables presented to concurrent calls
ConcTables ==
    {d \in ShortTables \cup DupTables \cup {EmptyTable} :
        /\ d.n <= ConcRecords
        /\ d.pad = 0
        /\ d.lastNext \in {0, RecSize}
        /\ d.m1.name \in {NullPtr, WServices}
        /\ d.m2.name \in {NullPtr, WServices}}

\* every answer so far reports the length of one of those tables, and the
\* basic-information query fails, if it does, with access denied
ConcAnswers ==
    \A t \in ConcCallers :
        /\ res[t] \in {STATUS_SUCCESS, STATUS_ACCESS_DENIED}
        /\ \A i \in 1..Len(queries[t]) :
              /\ queries[t][i].data \in ConcTables
              /\ queries[t][i].ret \in {Size(d) : d \in ConcTables}
              /\ queries[t][i].status # STATUS_NOT_IMPLEMENTED

\* the steps of the two calls interleave in any order
NextConcurrent == \E t \in ConcCallers : Step(t) /\ ConcAnswers'

SpecConcurrent == InitConcurrent /\ [][NextConcurrent]_vars

----------------------------------------------------------------------------
(* Properties *)

Done(t) == pc[t] = "done"

LastQuery(t) == queries[t][Len(queries[t])]

\* some enumeration query of the call reported success
Succeeded(t) ==
    \E i \in 1..Len(queries[t]) : queries[t][i].status = STATUS_SUCCESS

\* the traversal of the call stopped at a record carrying the parent's id
ParentFound(t) ==
    /\ Done(t)
    /\ reads[t].any
    /\ proc[t].UniqueProcessId = ppid[t]

\* the chain of the table ends with a next-offset of 0
WellFormed(d) == d.n >= 1 /\ d.lastNext = 0

\* no record of the table carries the identifier
Absent(d, id) == \A i \in 1..d.n : RecAt(d, i).UniqueProcessId # id

\* C1: when the enumeration succeeded and the traversal found a record with
\* the parent's identifier, the call returns Ok(true) if that record's
\* SessionId is 0 and its image name is, unit for unit, "services.exe", and
\* Ok(false) for any other session or name.
C1_FoundParentDecides ==
    \A t \in Callers :
        (Succeeded(t) /\ ParentFound(t)) =>
            result[t] = Ok(proc[t].SessionId = 0
                           /\ proc[t].ImageName = WServices)

\* C2: when the parent query and the enumeration succeed and the table is a
\* well-formed chain holding no record with the parent's identifier, the
\* call returns Ok(false).
C2_AbsentParentIsFalse ==
    \A t \in Callers :
        (/\ Done(t)
         /\ Succeeded(t)
         /\ WellFormed(LastQuery(t).data)
         /\ Absent(LastQuery(t).data, ppid[t]))
        => result[t] = Ok(FALSE)

C2_Witness ==
    \E t \in Callers :
        /\ Done(t)
        /\ Succeeded(t)
        /\ LastQuery(t).data.n >= 2
        /\ WellFormed(LastQuery(t).data)
        /\ Absent(LastQuery(t).data, ppid[t])
        /\ ppid[t] = ParentPid
        /\ result[t] = Ok(FALSE)

\* C3: a call whose last enumeration query reported the length mismatch, or
\* a required length of zero, returns the buffer-too-small error; it never
\* returns Ok after no enumeration query succeeded.
C3_NoDataIsError ==
    \A t \in Callers :
        (/\ Done(t)
         /\ Len(queries[t]) > 0
         /\ \/ LastQuery(t).status = STATUS_INFO_LENGTH_MISMATCH
            \/ /\ LastQuery(t).status = STATUS_SUCCESS
               /\ LastQuery(t).ret = 0)
        => result[t] = Err(STATUS_BUFFER_TOO_SMALL)

\* C4: a query that follows a length mismatch reporting N bytes is issued
\* with a buffer of at least N bytes.
C4_RetryFitsReportedLength ==
    \A t \in Callers :
        \A i \in 2..Len(queries[t]) :
            queries[t][i - 1].status = STATUS_INFO_LENGTH_MISMATCH
                => queries[t][i].cap >= queries[t][i - 1].ret

C4_Witness ==
    \E t \in Callers :
        /\ Len(queries[t]) = 2
        /\ queries[t][1].status = STATUS_INFO_LENGTH_MISMATCH
        /\ queries[t][1].ret > 0
        /\ queries[t][2].cap = queries[t][1].ret
        /\ queries[t][2].status = STATUS_SUCCESS
        /\ result[t] = Ok(TRUE)

\* C5: a call issues at most two enumeration queries, only one when the
\* first reports success, and none after a query that reported success:
\* every query but the last reported the length mismatch.
C5_AtMostTwoQueries ==
    \A t \in Callers :
        /\ Len(queries[t]) <= 2
        /\ \A i \in 1..Len(queries[t]) :
              i < Len(queries[t])
                  => queries[t][i].status = STATUS_INFO_LENGTH_MISMATCH
        /\ (Done(t) /\ Len(queries[t]) >= 1
              /\ queries[t][1].status = STATUS_SUCCESS)
              => Len(queries[t]) = 1

C5_Witness ==
    \E t \in Callers :
        /\ Done(t)
        /\ Len(queries[t]) = 1
        /\ queries[t][1].status = STATUS_SUCCESS

\* C6: an enumeration query failing with a status other than the length
\* mismatch ends the call at once: the call returns that status, the buffer
\* keeps the length it was queried with, no further query is issued and no
\* record is read.
C6_OtherFailureReturned ==
    \A t \in Callers :
        \A i \in 1..Len(queries[t]) :
            queries[t][i].status \in SysFailures =>
                /\ i = Len(queries[t])
                /\ Done(t)
                /\ result[t] = Err(queries[t][i].status)
                /\ sys_procs_buf[t].len = queries[t][i].cap
                /\ ~reads[t].any

C6_Witness ==
    \E t \in Callers :
        /\ Len(queries[t]) = 2
        /\ queries[t][1].ret > 0
        /\ queries[t][2].status = STATUS_NOT_IMPLEMENTED
        /\ result[t] = Err(STATUS_NOT_IMPLEMENTED)

\* C7: the basic-information query is issued once and before any
\* enumeration query, which needs its success; when it fails the call
\* returns its status without having issued an enumeration query.
C7_ParentQueryFirst ==
    \A t \in Callers :
        /\ pbi_queries[t] <= 1
        /\ Len(queries[t]) > 0 =>
              /\ pbi_queries[t] = 1
              /\ res[t] = STATUS_SUCCESS
              /\ pc[t] \notin {"start", "pbi", "close", "resolved"}
        /\ (Done(t) /\ res[t] # STATUS_SUCCESS) =>
              /\ result[t] = Err(res[t])
              /\ queries[t] = << >>
              /\ pbi_queries[t] = 1

C7_Witness ==
    \E t \in Callers :
        /\ Done(t)
        /\ res[t] = STATUS_ACCESS_DENIED
        /\ result[t] = Err(STATUS_ACCESS_DENIED)
        /\ queries[t] = << >>

\* C8: in every terminal state of a call, whatever its result, the process
\* handle is closed and the enumeration buffer is no longer held.
C8_NothingLeaked ==
    \A t \in Callers :
        Done(t) => (phdl[t] = "closed" /\ ~sys_procs_buf[t].live)

C8_Witness ==
    \E t \in Callers :
        /\ Done(t)
        /\ result[t] = Ok(TRUE)
        /\ sys_procs_buf[t].len > 0
        /\ phdl[t] = "closed"
        /\ ~sys_procs_buf[t].live

\* C9: every record the traversal reads lies inside the buffer: no byte of
\* it is at or beyond the buffer's end.
C9_ReadsInsideBuffer ==
    \A t \in Callers : reads[t].any => reads[t].end <= reads[t].len

\* The traversal cannot loop for ever: every iteration that stays in the
\* loop adds one to count, which the loop condition keeps below the cap.
TraversalAdvances ==
    [][\A t \in Callers :
          (/\ pc[t] = "walk" /\ pc'[t] = "walk"
           /\ <<ptr[t], count[t]>> # <<ptr'[t], count'[t]>>) =>
              /\ count'[t] = count[t] + 1
              /\ count'[t] <= RecordCap
              /\ ptr'[t] > ptr[t]]_vars

\* C10: every call eventually returns: a call whose execution has ended has
\* handed a value (Ok or Err) to its caller.
C10_CallEndsByReturning ==
    \A t \in Callers : Done(t) => result[t].kind \in {"Ok", "Err"}

\* the call went past line 77 into the traversal
Entered(t) ==
    /\ pc[t] \in {"walk", "after", "done"}
    /\ Len(queries[t]) > 0
    /\ \/ LastQuery(t).status = STATUS_SUCCESS
       \/ /\ LastQuery(t).status = STATUS_INFO_LENGTH_MISMATCH
          /\ Len(queries[t]) = 2
    /\ return_len[t] # 0

\* the traversal of the call was left through the condition of its loop:
\* the cursor at or past the buffer's end, or the record-count cap reached
LeftByCondition(t) ==
    ~(ptr[t] < sys_procs_buf[t].len /\ count[t] < 1024)

\* C11: the traversal produces no error: a call that entered it does not
\* return Err, and when the cursor reached or passed the buffer's end, or
\* the cap was reached, without a match, the call returns Ok(false).
C11_TraversalNeverFails ==
    \A t \in Callers :
        (Done(t) /\ Entered(t)) =>
            /\ result[t].kind # "Err"
            /\ LeftByCondition(t) => result[t] = Ok(FALSE)

C11_Witness ==
    \E t \in Callers :
        /\ Done(t)
        /\ Entered(t)
        /\ count[t] = 1024
        /\ ptr[t] < sys_procs_buf[t].len
        /\ result[t] = Ok(FALSE)

\* C14: a matched parent record whose image-name pointer is null is no
\* error: whatever its session, the call returns Ok(false).
C14_NullNameIsFalse ==
    \A t \in Callers :
        (ParentFound(t) /\ proc[t].ImageName = NullPtr) =>
            result[t] = Ok(FALSE)

C14_Witness ==
    \E t \in Callers :
        /\ Succeeded(t)
        /\ ParentFound(t)
        /\ ppid[t] = ParentPid
        /\ proc[t].ImageName = NullPtr
        /\ proc[t].SessionId = 0
        /\ reads[t].end <= reads[t].len
        /\ result[t] = Ok(FALSE)

\* the chain positions of table d whose record carries the identifier
MatchPositions(d, id) ==
    {i \in 1..d.n : RecAt(d, i).UniqueProcessId = id}

\* the first of them in chain order, 0 when there is none
FirstPos(d, id) ==
    LET S == MatchPositions(d, id) IN
    IF S = {} THEN 0 ELSE CHOOSE i \in S : \A j \in S : i <= j

\* C15: when several records of the table carry the parent's identifier,
\* the traversal stops at the first of them in chain order and a value the
\* call returns is the verdict on that record's session and image name.
C15_FirstMatchWins ==
    \A t \in Callers :
        (/\ Done(t)
         /\ Succeeded(t)
         /\ Cardinality(MatchPositions(LastQuery(t).data, ppid[t])) >= 2
         /\ FirstPos(LastQuery(t).data, ppid[t]) <= 1024)
        => LET d == LastQuery(t).data
               first == FirstPos(d, ppid[t])
               rec == RecAt(d, first)
           IN /\ proc[t] = rec
              /\ reads[t].at = (first - 1) * d.stride
              /\ result[t].kind # "Err"
              /\ result[t].kind = "Ok" =>
                    result[t].val = (rec.SessionId = 0
                                     /\ rec.ImageName = WServices)

C15_Witness ==
    \E t \in Callers :
        /\ Done(t)
        /\ Succeeded(t)
        /\ LET d == LastQuery(t).data IN
              /\ Cardinality(MatchPositions(d, ppid[t])) = 2
              /\ RecAt(d, 1).SessionId = 1
              /\ RecAt(d, 2).SessionId = 0
              /\ RecAt(d, 2).ImageName = WServices
              /\ proc[t] = RecAt(d, 1)
        /\ result[t] = Ok(FALSE)

\* C16: the traversal examines the records at chain positions 1..1024 at
\* most: a parent whose only record is at position 1025 yields Ok(false),
\* one whose first record is at position 1024 is examined and decides.
C16_CapIs1024 ==
    \A t \in Callers :
        /\ count[t] <= 1024
        /\ (reads[t].any /\ Succeeded(t)) =>
              reads[t].at \div LastQuery(t).data.stride + 1 <= 1024
        /\ (Done(t) /\ Succeeded(t)
              /\ FirstPos(LastQuery(t).data, ppid[t]) = 1025)
              => result[t] = Ok(FALSE)
        /\ (Done(t) /\ Succeeded(t)
              /\ FirstPos(LastQuery(t).data, ppid[t]) = 1024)
              => /\ proc[t] = RecAt(LastQuery(t).data, 1024)
                 /\ count[t] = 1023
                 /\ result[t] = Ok(TRUE)

C16_Witness ==
    \E t \in Callers :
        /\ Done(t)
        /\ Succeeded(t)
        /\ FirstPos(LastQuery(t).data, ppid[t]) = 1025
        /\ count[t] = 1024
        /\ reads[t].at = 1023 * LastQuery(t).data.stride
        /\ result[t] = Ok(FALSE)

\* C17: a call returns Ok(true) only when one of its enumeration queries
\* reported success on a non-empty buffer; a call all of whose queries
\* failed never returns Ok(true).
C17_TrueNeedsData ==
    \A t \in Callers :
        (Done(t) /\ result[t] = Ok(TRUE)) =>
            /\ Succeeded(t)
            /\ LastQuery(t).status = STATUS_SUCCESS
            /\ LastQuery(t).cap > 0
            /\ LastQuery(t).ret > 0

C17_Witness ==
    \E t \in Callers :
        /\ Done(t)
        /\ result[t] = Ok(TRUE)
        /\ Len(queries[t]) = 2
        /\ LastQuery(t).status = STATUS_SUCCESS
        /\ LastQuery(t).cap > 0
        /\ reads[t].end <= reads[t].len

\* every record the call read lay inside its buffer (the cursor only grows,
\* so the last read reaches furthest)
ReadInside(t) == reads[t].any => reads[t].end <= reads[t].len

\* Two calls against the same OS state agree whenever neither read outside
\* its buffer.
RepeatAgreesInsideBuffer ==
    (/\ pc["first"] = "done" /\ pc["second"] = "done"
     /\ ReadInside("first") /\ ReadInside("second"))
    => result["second"] = result["first"]

\* a second call starts from nothing the first call wrote: its buffer,
\* return length, cursor and count are those of a first call
RepeatStartsAfresh ==
    /\ pc["second"] = "query" /\ attempt["second"] = 0 =>
          /\ sys_procs_buf["second"] = EmptyBuf
          /\ return_len["second"] = 0
    /\ pc["second"] = "walk" /\ ~reads["second"].any =>
          /\ ptr["second"] = 0
          /\ count["second"] = 0

\* C12: two calls made against the same OS state (same parent identifier,
\* same query statuses, same process-table contents) return the same result.
C12_RepeatedCallAgrees ==
    (pc["first"] = "done" /\ pc["second"] = "done")
        => result["second"] = result["first"]

\* The results of the traversal of buffer b for parent id, from offset off
\* with cnt advances made, when nothing else runs.
RECURSIVE WalkAlone(_, _, _, _)
WalkAlone(b, id, off, cnt) ==
    IF ~(off < b.len /\ cnt < 1024) THEN {Ok(FALSE)}
    ELSE UNION {
        IF p.UniqueProcessId = id
        THEN {IF ProcName(p.ImageName).ok
              THEN Ok(p.SessionId = 0 /\ ProcName(p.ImageName).s = ServicesExe)
              ELSE Panic}
        ELSE IF p.NextEntryOffset = 0 THEN {Ok(FALSE)}
        ELSE WalkAlone(b, id, off + p.NextEntryOffset, cnt + 1)
        : p \in Deref(b, off)}

\* The results a call running alone produces from the answers call t got.
AloneResults(t) ==
    IF res[t] # STATUS_SUCCESS THEN {Err(res[t])}
    ELSE LET last == LastQuery(t) IN
         IF last.status \notin {STATUS_SUCCESS, STATUS_INFO_LENGTH_MISMATCH}
         THEN {Err(last.status)}
         ELSE IF last.ret = 0 THEN {Err(STATUS_BUFFER_TOO_SMALL)}
         ELSE WalkAlone(
                [len  |-> IF last.status = STATUS_SUCCESS THEN last.cap
                          ELSE last.ret,
                 data |-> last.data],
                pinfo[t], 0, 0)

\* the locals of a call
Locals(t) ==
    << pc[t], phdl[t], res[t], pinfo[t], ppid[t], sys_procs_buf[t],
       return_len[t], attempt[t], ptr[t], count[t], proc[t], result[t] >>

\* C13: concurrent calls are independent: under every interleaving a step
\* changes the buffer, return length, cursor and other locals of one call
\* only, and the result of each call is one it produces running alone
\* against the answers it received.
C13_ConcurrentCallsIndependent ==
    /\ [](\A t \in ConcCallers : Done(t) => result[t] \in AloneResults(t))
    /\ [][\A t, u \in ConcCallers :
             (t # u /\ Locals(t)' # Locals(t)) => Locals(u)' = Locals(u)]_vars

C13_Witness ==
    /\ pc["a"] = "done"
    /\ pc["b"] = "done"
    /\ result["a"] = Ok(TRUE)
    /\ result["b"] = Ok(FALSE)
    /\ ppid["a"] = ppid["b"]
    /\ LastQuery("a").data # LastQuery("b").data
    /\ LastQuery("a").cap = LastQuery("b").cap

====
